---- MODULE Spec2Model ----
(***************************************************************************)
(* Verification model of the PHP project discovery / filtering pipeline.   *)
(*                                                                         *)
(*   SpecDiscovery  ProjectSearcher._search_top_stars_php_projects,        *)
(*                  _search_single_query, _search_with_stars_ranges,       *)
(*                  _subdivide_stars_range; SpecDiscoveryFaults adds       *)
(*                  provider failures; SpecSubdivide applies               *)
(*                  _subdivide_stars_range to ranges of many shapes        *)
(*   SpecClassify   PHPAnalyzer.analyze_file_content / analyze_multiple_   *)
(*                  files, ProjectSearcher._combine_analysis_results,      *)
(*                  _generate_combined_summary                             *)
(*   SpecCache      CacheManager.get / set / delete / clear;               *)
(*                  SpecCacheRace splits get into its two statements       *)
(*   SpecRate       RateLimitHandler and the GitHubAPIClient live calls    *)
(*   SpecBatch      ProjectSearcher.search_projects, _process_batch,       *)
(*                  apply_filtering_logic, _get_project_files              *)
(*   SpecClient     GitHubAPIClient.search_code_in_repository and          *)
(*                  get_file_content with CacheManager and the handler     *)
(*                                                                         *)
(* Every specification constrains all variables; the variables of the      *)
(* other components stay at their initial value.                           *)
(***************************************************************************)
EXTENDS Integers, Sequences, FiniteSets, TLC

VARIABLES
    \* ---- repository discovery (project_searcher.py) ----
    population,         \* provider side: number of repositories per star value
    count,              \* argument of _search_top_stars_php_projects
    pc,                 \* position of the discovery call
    all_repos,          \* _search_with_stars_ranges: accumulated repositories
    seen_repo_ids,      \* _search_with_stars_ranges: set used for deduplication
    ranges_to_process,  \* _search_with_stars_ranges: the work queue
    range_idx,          \* _search_with_stars_ranges: number of ranges pulled
    range_log,          \* history: ranges pulled and not subdivided, with outcome
    failures,           \* history: number of provider failures so far
    result,             \* value returned by discovery
    \* ---- evaluation of one repository (php_analyzer.py, project_searcher.py) ----
    file_contents,      \* apply_filtering_logic: the fetched files of the repository
    analysis_results,   \* result of PHPAnalyzer.analyze_multiple_files
    combined,           \* result of _combine_analysis_results
    cpc,                \* position of the evaluation
    \* ---- the clock (time.time(), datetime.now()) ----
    now,
    \* ---- CacheManager (cache_manager.py) ----
    expire_after,       \* CacheManager.expire_after, the default TTL
    store,              \* the cache table: a set of rows
    last_get,           \* history: the last get, what it found and returned
    written,            \* history: per key, the last set not yet deleted
    \* ---- RateLimitHandler and GitHubAPIClient ----
    client_impl,        \* which GitHubAPIClient is in use
    request_delay,      \* RateLimitHandler.request_delay
    rate_limit_remaining,
    rate_limit_reset,
    last_request_time,
    call_starts,        \* history: start times of the live provider calls
    ufr,                \* history: the last update_from_response and its outcome
    ops,                \* history: number of operations performed
    \* ---- the batch run (ProjectSearcher.search_projects) ----
    batch_size,         \* search_projects: batch_size
    repository_results, \* search_projects: the discovered repository items
    bpc,                \* position of search_projects
    batch_num,          \* search_projects: number of the current batch
    batch_results,      \* _process_batch: the SearchResult objects of the batch
    cur,                \* apply_filtering_logic: index of the current result
    filtered_results,   \* apply_filtering_logic: qualified results of the batch
    error_count,        \* apply_filtering_logic: local error counter
    all_qualified_results, \* search_projects: accumulated results
    search_stats,       \* ProjectSearcher.search_stats
    max_files,          \* Settings.get_max_files_per_project()
    lookups,            \* history: the branch lookups of the current batch
    fetch_log,          \* history: the file fetches of the last evaluation
    evaluated,          \* history: every result handled, with its outcome
    \* ---- GitHubAPIClient with its cache (github_client.py) ----
    call_log,           \* history: the last client call and its outcome
    \* ---- a get running next to other cache operations ----
    getter              \* CacheManager.get in progress: its position and key

discVars == <<population, count, pc, all_repos, seen_repo_ids,
              ranges_to_process, range_idx, range_log, failures, result>>

classVars == <<file_contents, analysis_results, combined, cpc>>

cacheVars == <<expire_after, store, last_get, written>>

rateVars == <<client_impl, request_delay, rate_limit_remaining,
              rate_limit_reset, last_request_time, call_starts, ufr, ops>>

batchVars == <<batch_size, repository_results, bpc, batch_num, batch_results,
               cur, filtered_results, error_count, all_qualified_results,
               search_stats, max_files, lookups, fetch_log, evaluated>>

clientVars == <<call_log>>

raceVars == <<getter>>

vars == <<discVars, classVars, now, cacheVars, rateVars, batchVars, clientVars,
          raceVars>>

\* Python's None for an absent upper bound / absent value.
None == -1

(***************************************************************************)
(* Bounds of the model.                                                    *)
(***************************************************************************)
MaxFailures == 1        \* provider failures injected per discovery run
MaxRangeIdx == 27       \* ranges pulled from the queue per discovery run

(***************************************************************************)
(* Program constants.                                                      *)
(***************************************************************************)
GITHUB_SEARCH_MAX_RESULTS == 1000
per_page == 100
max_pages == 10

(***************************************************************************)
(* The provider population.  Repositories sit at a few star values; a      *)
(* population gives the number of repositories at each value.  Repository  *)
(* ids are 1..Total, numbered in the provider's result order (stars        *)
(* descending), so the result list of every query is an id interval.       *)
(***************************************************************************)
StarAnchors == <<250000, 120000, 7000, 6900, 0>>

GroupSizes == <<{0, 150}, {600, 950}, {350, 600}, {0, 600}, {0, 250, 1001}>>

FaultGroupSizes == <<{150}, {950}, {600}, {0, 600}, {0, 1001}>>

PopulationsOf(sizes) ==
    {p \in [1..Len(StarAnchors) -> {0, 150, 250, 350, 600, 950, 1001}] :
        \A g \in 1..Len(StarAnchors) : p[g] \in sizes[g]}

Counts == {150, 1500}

RECURSIVE GroupStart(_)
GroupStart(g) == IF g = 1 THEN 0 ELSE GroupStart(g - 1) + population[g - 1]

TotalRepos == GroupStart(Len(StarAnchors)) + population[Len(StarAnchors)]

\* The dictionaries search_repositories_optimized builds for the repositories
\* with ids lo..hi: the concatenation, group by group, of the ids of that
\* group that fall in lo..hi.
RECURSIVE ReposFrom(_, _, _)
ReposFrom(g, lo, hi) ==
    IF g > Len(StarAnchors) THEN <<>>
    ELSE LET a == IF lo > GroupStart(g) + 1 THEN lo ELSE GroupStart(g) + 1
             b == IF hi < GroupStart(g) + population[g] THEN hi
                  ELSE GroupStart(g) + population[g]
         IN  (IF b < a THEN <<>>
              ELSE [i \in 1..(b - a + 1) |->
                      [id |-> a + i - 1, stargazers_count |-> StarAnchors[g]]])
             \o ReposFrom(g + 1, lo, hi)

Repos(lo, hi) == ReposFrom(1, lo, hi)

InRange(stars, min_stars, max_stars) ==
    stars >= min_stars /\ (max_stars = None \/ stars <= max_stars)

\* Groups matching the query "language:PHP stars:min..max" (stars:>=min when
\* max_stars is None); the base query is the range (0, None).
MatchingGroups(min_stars, max_stars) ==
    {g \in 1..Len(StarAnchors) : InRange(StarAnchors[g], min_stars, max_stars)}

RECURSIVE SumSizes(_)
SumSizes(gs) ==
    IF gs = {} THEN 0
    ELSE LET g == CHOOSE x \in gs : TRUE IN population[g] + SumSizes(gs \ {g})

\* total_count the provider reports for a query
TotalCount(min_stars, max_stars) == SumSizes(MatchingGroups(min_stars, max_stars))

\* id of the first repository of the query's result list, minus one
QueryOffset(min_stars, max_stars) ==
    LET gs == MatchingGroups(min_stars, max_stars)
    IN  IF gs = {} THEN 0
        ELSE GroupStart(CHOOSE g \in gs : \A h \in gs : g <= h)

Min(a, b) == IF a <= b THEN a ELSE b
Max(a, b) == IF a >= b THEN a ELSE b

(***************************************************************************)
(* The provider operation searchRepositories(query, pageSize, page):       *)
(* the items at positions (page-1)*pageSize .. page*pageSize-1 of the      *)
(* query's result list, of which only the first GITHUB_SEARCH_MAX_RESULTS  *)
(* can be reached, together with the total match count.                    *)
(***************************************************************************)
search_repositories_optimized(min_stars, max_stars, pageSize, page) ==
    LET total   == TotalCount(min_stars, max_stars)
        reach   == Min(total, GITHUB_SEARCH_MAX_RESULTS)
        start   == (page - 1) * pageSize
        n       == Max(0, Min(pageSize, reach - start))
        off     == QueryOffset(min_stars, max_stars)
    IN  [repos       |-> Repos(off + start + 1, off + start + n),
         total_count |-> total]

(***************************************************************************)
(* ProjectSearcher._search_single_query.  fail_page is the page whose      *)
(* provider call raises (0: none); the exception leaves the function.      *)
(***************************************************************************)
PagesNeeded(cnt) == Min((cnt + per_page - 1) \div per_page, max_pages)

RECURSIVE SingleQueryLoop(_, _, _, _, _, _, _)
SingleQueryLoop(min_stars, max_stars, cnt, page, repos_so_far, first_total_count, fail_page) ==
    IF page > PagesNeeded(cnt) \/ Len(repos_so_far) >= cnt
    THEN [raised |-> FALSE, repos |-> repos_so_far]
    ELSE IF page = fail_page
    THEN [raised |-> TRUE, repos |-> <<>>]
    ELSE
        LET remaining        == cnt - Len(repos_so_far)
            current_per_page == Min(remaining, per_page)
            resp   == search_repositories_optimized(min_stars, max_stars,
                                                    current_per_page, page)
            first  == IF first_total_count = None /\ resp.total_count # None
                      THEN resp.total_count ELSE first_total_count
            ext    == repos_so_far \o resp.repos
        IN  IF Len(resp.repos) < current_per_page
               /\ (first = None \/ Len(ext) >= first)
            THEN [raised |-> FALSE, repos |-> ext]
            ELSE SingleQueryLoop(min_stars, max_stars, cnt, page + 1, ext,
                                 first, fail_page)

search_single_query(min_stars, max_stars, cnt, fail_page) ==
    LET r == SingleQueryLoop(min_stars, max_stars, cnt, 1, <<>>, None, fail_page)
    IN  IF r.raised THEN r
        ELSE [raised |-> FALSE,
              repos  |-> IF Len(r.repos) > cnt THEN SubSeq(r.repos, 1, cnt)
                         ELSE r.repos]

(***************************************************************************)
(* ProjectSearcher._subdivide_stars_range.  int(min_stars * 1.5) is        *)
(* (3 * min_stars) \div 2 for the non-negative bounds used here.           *)
(***************************************************************************)
Rg(lo, hi) == [min_stars |-> lo, max_stars |-> hi]

\* a slip in the upper bound of the lower child of an open-ended range
subdivide_open_overlapping(min_stars) ==
    << Rg(min_stars * 2, None), Rg(min_stars, min_stars * 2) >>

\* the open-ended branch (lines 505-528)
subdivide_open(min_stars) ==
    IF min_stars >= 100000
    THEN << Rg(min_stars * 2, None),
            Rg(min_stars, min_stars * 2 - 1) >>
    ELSE IF min_stars >= 10000
    THEN << Rg(min_stars * 2, None),
            Rg((3 * min_stars) \div 2, min_stars * 2 - 1),
            Rg(min_stars, (3 * min_stars) \div 2 - 1) >>
    ELSE << Rg(min_stars * 3, None),
            Rg(min_stars * 2, min_stars * 3 - 1),
            Rg((3 * min_stars) \div 2, min_stars * 2 - 1),
            Rg(min_stars, (3 * min_stars) \div 2 - 1) >>

\* the bounded branch (lines 529-559)
subdivide_bounded(min_stars, max_stars) ==
    LET range_size == max_stars - min_stars + 1
    IN  IF range_size <= 100
        THEN << Rg(min_stars, max_stars) >>
        ELSE IF range_size <= 500
        THEN LET mid == (min_stars + max_stars) \div 2
             IN  << Rg(mid + 1, max_stars), Rg(min_stars, mid) >>
        ELSE IF range_size <= 2000
        THEN LET third == range_size \div 3
             IN  << Rg(min_stars + 2 * third + 1, max_stars),
                    Rg(min_stars + third + 1, min_stars + 2 * third),
                    Rg(min_stars, min_stars + third) >>
        ELSE LET quarter == range_size \div 4
             IN  << Rg(min_stars + 3 * quarter + 1, max_stars),
                    Rg(min_stars + 2 * quarter + 1, min_stars + 3 * quarter),
                    Rg(min_stars + quarter + 1, min_stars + 2 * quarter),
                    Rg(min_stars, min_stars + quarter) >>

subdivide_stars_range(min_stars, max_stars) ==
    IF max_stars = None
    THEN subdivide_open(min_stars)
    ELSE subdivide_bounded(min_stars, max_stars)

initial_ranges ==
    << Rg(100000, None), Rg(50000, 99999), Rg(20000, 49999), Rg(10000, 19999),
       Rg(5000, 9999), Rg(2000, 4999), Rg(1000, 1999), Rg(500, 999),
       Rg(200, 499), Rg(100, 199), Rg(50, 99), Rg(20, 49), Rg(10, 19),
       Rg(1, 9), Rg(0, 0) >>

(***************************************************************************)
(* The deduplication loop of _search_with_stars_ranges (lines 444-458):    *)
(* a left-to-right fold over range_repos, evaluated by halving the list    *)
(* (the fold is associative) to keep the evaluation depth logarithmic.     *)
(***************************************************************************)
RECURSIVE DedupNew(_, _)
DedupNew(range_repos, seen) ==
    IF Len(range_repos) = 0 THEN [new_repos |-> <<>>, seen |-> seen]
    ELSE IF Len(range_repos) = 1
    THEN LET repo == range_repos[1]
         IN  IF repo.id # 0 /\ repo.id \notin seen
             THEN [new_repos |-> <<repo>>, seen |-> seen \cup {repo.id}]
             ELSE [new_repos |-> <<>>, seen |-> seen]
    ELSE LET h == Len(range_repos) \div 2
             L == DedupNew(SubSeq(range_repos, 1, h), seen)
             R == DedupNew(SubSeq(range_repos, h + 1, Len(range_repos)), L.seen)
         IN  [new_repos |-> L.new_repos \o R.new_repos, seen |-> R.seen]

\* the sort without reverse=True
SortByStarsAscending(repos) ==
    SortSeq(repos, LAMBDA a, b : a.stargazers_count < b.stargazers_count)

\* all_repos.sort(key=stargazers_count, reverse=True): a stable sort
SortByStars(repos) ==
    SortSeq(repos, LAMBDA a, b : a.stargazers_count > b.stargazers_count)

Truncate(repos, cnt) == IF Len(repos) > cnt THEN SubSeq(repos, 1, cnt) ELSE repos

(***************************************************************************)
(* Values of the components a specification does not exercise.            *)
(***************************************************************************)
IdleDiscovery ==
    /\ population = [g \in 1..Len(StarAnchors) |-> 0]
    /\ count = 0
    /\ pc = "idle"
    /\ all_repos = <<>>
    /\ seen_repo_ids = {}
    /\ ranges_to_process = <<>>
    /\ range_idx = 0
    /\ range_log = <<>>
    /\ failures = 0
    /\ result = <<>>

IdleClassify ==
    /\ file_contents = <<>>
    /\ analysis_results = <<>>
    /\ combined = [stage |-> "none"]
    /\ cpc = "idle"

IdleCache ==
    /\ expire_after = 0
    /\ store = {}
    /\ last_get = [op |-> "none"]
    /\ written = <<>>

IdleRate ==
    /\ client_impl = "none"
    /\ request_delay = 0
    /\ rate_limit_remaining = None
    /\ rate_limit_reset = None
    /\ last_request_time = None
    /\ call_starts = <<>>
    /\ ufr = [called |-> FALSE]
    /\ ops = 0

NoGetter == [pc |-> "idle"]

IdleRace == getter = NoGetter

NoCall == [called |-> FALSE]

IdleClient == call_log = NoCall

NoFetch == [searched |-> FALSE]

IdleBatch ==
    /\ batch_size = 0
    /\ repository_results = <<>>
    /\ bpc = "idle"
    /\ batch_num = 0
    /\ batch_results = <<>>
    /\ cur = 0
    /\ filtered_results = <<>>
    /\ error_count = 0
    /\ all_qualified_results = <<>>
    /\ search_stats = [total_searched |-> 0, qualified_projects |-> 0,
                       rejected_projects |-> 0, error_projects |-> 0]
    /\ max_files = 0
    /\ lookups = <<>>
    /\ fetch_log = NoFetch
    /\ evaluated = <<>>

(***************************************************************************)
(* Discovery: initial state and actions.                                   *)
(***************************************************************************)
InitDiscoveryCommon ==
    /\ count \in Counts
    /\ pc = "start"
    /\ all_repos = <<>>
    /\ seen_repo_ids = {}
    /\ ranges_to_process = <<>>
    /\ range_idx = 0
    /\ range_log = <<>>
    /\ failures = 0
    /\ result = <<>>
    /\ IdleClassify
    /\ now = 0
    /\ IdleCache
    /\ IdleRate
    /\ IdleBatch
    /\ IdleClient
    /\ IdleRace

InitDiscovery ==
    /\ population \in PopulationsOf(GroupSizes)
    /\ InitDiscoveryCommon

InitDiscoveryFaults ==
    /\ population \in PopulationsOf(FaultGroupSizes)
    /\ InitDiscoveryCommon

\* _search_top_stars_php_projects with count <= 1000: the probe of the base
\* query, then one single query (lines 229-246).
SearchSingle ==
    /\ pc = "start"
    /\ count <= GITHUB_SEARCH_MAX_RESULTS
    /\ LET r == search_single_query(0, None, count, 0)
       IN  /\ pc' = "done"
           /\ result' = r.repos
    /\ UNCHANGED <<population, count, all_repos, seen_repo_ids,
                   ranges_to_process, range_idx, range_log, failures>>
    /\ UNCHANGED <<classVars, now, cacheVars, rateVars, batchVars, clientVars,
                   raceVars>>

\* _search_top_stars_php_projects with count > 1000 enters
\* _search_with_stars_ranges, which seeds the queue with the initial bands
\* (lines 248-252, 360-390).
StartRanges ==
    /\ pc = "start"
    /\ count > GITHUB_SEARCH_MAX_RESULTS
    /\ pc' = "ranges"
    /\ ranges_to_process' = initial_ranges
    /\ all_repos' = <<>>
    /\ seen_repo_ids' = {}
    /\ range_idx' = 0
    /\ UNCHANGED <<population, count, range_log, failures, result>>
    /\ UNCHANGED <<classVars, now, cacheVars, rateVars, batchVars, clientVars,
                   raceVars>>

LoopRuns ==
    /\ pc = "ranges"
    /\ ranges_to_process # <<>>
    /\ Len(all_repos) < count
    /\ range_idx < MaxRangeIdx

\* One iteration whose probe reports more than the cap: subdivide and put
\* the children at the front of the queue (lines 426-435).
RangeSubdivide ==
    /\ LoopRuns
    /\ LET r == Head(ranges_to_process)
       IN  /\ TotalCount(r.min_stars, r.max_stars) > GITHUB_SEARCH_MAX_RESULTS
           /\ ranges_to_process' =
                 subdivide_stars_range(r.min_stars, r.max_stars)
                    \o Tail(ranges_to_process)
    /\ range_idx' = range_idx + 1
    /\ UNCHANGED <<population, count, pc, all_repos, seen_repo_ids,
                   range_log, failures, result>>
    /\ UNCHANGED <<classVars, now, cacheVars, rateVars, batchVars, clientVars,
                   raceVars>>

\* One iteration whose probe reports at most the cap: fetch the range,
\* deduplicate, append (lines 437-458).
RangeFetch ==
    /\ LoopRuns
    /\ LET r           == Head(ranges_to_process)
           total_count == TotalCount(r.min_stars, r.max_stars)
           fetch_count == Min(total_count, GITHUB_SEARCH_MAX_RESULTS)
           range_repos == search_single_query(r.min_stars, r.max_stars,
                                              fetch_count, 0).repos
           d           == DedupNew(range_repos, seen_repo_ids)
       IN  /\ total_count <= GITHUB_SEARCH_MAX_RESULTS
           /\ all_repos' = all_repos \o d.new_repos
           /\ seen_repo_ids' = d.seen
           /\ range_log' = Append(range_log, [range |-> r, status |-> "fetched"])
    /\ range_idx' = range_idx + 1
    /\ ranges_to_process' = Tail(ranges_to_process)
    /\ UNCHANGED <<population, count, pc, failures, result>>
    /\ UNCHANGED <<classVars, now, cacheVars, rateVars, batchVars, clientVars,
                   raceVars>>

\* Loop exit: sort by stars, truncate to count, return (lines 473-485).
RangesReturn ==
    /\ pc = "ranges"
    /\ ~(ranges_to_process # <<>> /\ Len(all_repos) < count)
    /\ all_repos' = Truncate(SortByStars(all_repos), count)
    /\ result' = all_repos'
    /\ pc' = "done"
    /\ UNCHANGED <<population, count, seen_repo_ids, ranges_to_process,
                   range_idx, range_log, failures>>
    /\ UNCHANGED <<classVars, now, cacheVars, rateVars, batchVars, clientVars,
                   raceVars>>

(***************************************************************************)
(* Provider failures.                                                      *)
(***************************************************************************)
\* _search_top_stars_php_projects: the probe of the base query raises, or a
\* page call of the single query raises; the function re-raises it as
\* GitHubAPIError (lines 254-260).
SearchTopFails ==
    /\ pc = "start"
    /\ failures < MaxFailures
    /\ failures' = failures + 1
    /\ pc' = "raised"
    /\ UNCHANGED <<population, count, all_repos, seen_repo_ids,
                   ranges_to_process, range_idx, range_log, result>>
    /\ UNCHANGED <<classVars, now, cacheVars, rateVars, batchVars, clientVars,
                   raceVars>>

\* the probe's exception leaves the loop and discovery
RangeProbeFailsAborting ==
    /\ LoopRuns
    /\ failures < MaxFailures
    /\ failures' = failures + 1
    /\ range_idx' = range_idx + 1
    /\ ranges_to_process' = Tail(ranges_to_process)
    /\ range_log' = Append(range_log, [range |-> Head(ranges_to_process),
                                       status |-> "probe_failed"])
    /\ pc' = "raised"
    /\ UNCHANGED <<population, count, all_repos, seen_repo_ids, result>>
    /\ UNCHANGED <<classVars, now, cacheVars, rateVars, batchVars, clientVars,
                   raceVars>>

\* One iteration whose probe raises (lines 411-415, 468-471).
RangeProbeFails ==
    /\ LoopRuns
    /\ failures < MaxFailures
    /\ failures' = failures + 1
    /\ range_idx' = range_idx + 1
    /\ ranges_to_process' = Tail(ranges_to_process)
    /\ range_log' = Append(range_log, [range |-> Head(ranges_to_process),
                                       status |-> "probe_failed"])
    /\ UNCHANGED <<population, count, pc, all_repos, seen_repo_ids, result>>
    /\ UNCHANGED <<classVars, now, cacheVars, rateVars, batchVars, clientVars,
                   raceVars>>

\* One iteration whose probe reports no total_count (lines 419-421).
RangeNoTotal ==
    /\ LoopRuns
    /\ failures < MaxFailures
    /\ failures' = failures + 1
    /\ range_idx' = range_idx + 1
    /\ ranges_to_process' = Tail(ranges_to_process)
    /\ range_log' = Append(range_log, [range |-> Head(ranges_to_process),
                                       status |-> "skipped"])
    /\ UNCHANGED <<population, count, pc, all_repos, seen_repo_ids, result>>
    /\ UNCHANGED <<classVars, now, cacheVars, rateVars, batchVars, clientVars,
                   raceVars>>

\* the pages read before the failing one are kept
RangeFetchFailsKeepingPages ==
    /\ LoopRuns
    /\ failures < MaxFailures
    /\ LET r           == Head(ranges_to_process)
           total_count == TotalCount(r.min_stars, r.max_stars)
           fetch_count == Min(total_count, GITHUB_SEARCH_MAX_RESULTS)
       IN  /\ total_count <= GITHUB_SEARCH_MAX_RESULTS
           /\ \E fail_page \in 1..PagesNeeded(fetch_count) :
                 /\ search_single_query(r.min_stars, r.max_stars,
                                        fetch_count, fail_page).raised
                 /\ LET d == DedupNew(
                                search_single_query(r.min_stars, r.max_stars,
                                    Min(fetch_count, (fail_page - 1) * per_page),
                                    0).repos,
                                seen_repo_ids)
                    IN  /\ all_repos' = all_repos \o d.new_repos
                        /\ seen_repo_ids' = d.seen
           /\ range_log' = Append(range_log, [range |-> r, status |-> "fetch_failed"])
    /\ failures' = failures + 1
    /\ range_idx' = range_idx + 1
    /\ ranges_to_process' = Tail(ranges_to_process)
    /\ UNCHANGED <<population, count, pc, result>>
    /\ UNCHANGED <<classVars, now, cacheVars, rateVars, batchVars, clientVars,
                   raceVars>>

\* One iteration whose probe succeeds and whose fetch raises at some page:
\* the pages read so far are local to _search_single_query and are lost
\* (lines 440, 468-471).
RangeFetchFails ==
    /\ LoopRuns
    /\ failures < MaxFailures
    /\ LET r           == Head(ranges_to_process)
           total_count == TotalCount(r.min_stars, r.max_stars)
           fetch_count == Min(total_count, GITHUB_SEARCH_MAX_RESULTS)
       IN  /\ total_count <= GITHUB_SEARCH_MAX_RESULTS
           /\ \E fail_page \in 1..PagesNeeded(fetch_count) :
                 search_single_query(r.min_stars, r.max_stars,
                                     fetch_count, fail_page).raised
           /\ range_log' = Append(range_log, [range |-> r, status |-> "fetch_failed"])
    /\ failures' = failures + 1
    /\ range_idx' = range_idx + 1
    /\ ranges_to_process' = Tail(ranges_to_process)
    /\ UNCHANGED <<population, count, pc, all_repos, seen_repo_ids, result>>
    /\ UNCHANGED <<classVars, now, cacheVars, rateVars, batchVars, clientVars,
                   raceVars>>

NextDiscovery ==
    \/ SearchSingle
    \/ StartRanges
    \/ RangeSubdivide
    \/ RangeFetch
    \/ RangesReturn

NextDiscoveryFaults ==
    \/ NextDiscovery
    \/ SearchTopFails
    \/ RangeProbeFails
    \/ RangeNoTotal
    \/ RangeFetchFails

SpecDiscovery == InitDiscovery /\ [][NextDiscovery]_vars

SpecDiscoveryFaults == InitDiscoveryFaults /\ [][NextDiscoveryFaults]_vars

(***************************************************************************)
(* Properties of repository discovery.                                     *)
(***************************************************************************)
NoDuplicateIds(repos) ==
    Cardinality({repos[i].id : i \in DOMAIN repos}) = Len(repos)

SortedByStarsDescending(repos) ==
    \A i \in 1..(Len(repos) - 1) :
        repos[i].stargazers_count >= repos[i + 1].stargazers_count

\* C1: the list returned by discovery, for a target count at or below the
\* cap (single query) as well as above it (star ranges), contains no
\* repository id twice.
C1_NoDuplicateIds ==
    pc = "done" => NoDuplicateIds(result)

\* C2: the list returned by range-based discovery for target count N is
\* sorted by stargazers_count in non-increasing order and has at most N
\* elements, whatever the outcomes of the ranges were.
C2_SortedAndBounded ==
    (pc = "done" /\ count > GITHUB_SEARCH_MAX_RESULTS) =>
        /\ SortedByStarsDescending(result)
        /\ Len(result) <= count

\* a run with a failed range and a subdivided range that collected more than
\* N repositories of different popularity and returned N of them
C2_Witness ==
    /\ pc = "done"
    /\ count > GITHUB_SEARCH_MAX_RESULTS
    /\ failures > 0
    /\ range_idx > Len(range_log)
    /\ Cardinality(seen_repo_ids) > count
    /\ Len(result) = count
    /\ result[1].stargazers_count > result[Len(result)].stargazers_count

\* C3: with no provider failure, when at least target-count repositories
\* match and the target count exceeds the cap, discovery returns exactly
\* target-count repositories, deduplicated and sorted by popularity.
C3_ExactlyTargetCount ==
    (pc = "done" /\ failures = 0 /\ count > GITHUB_SEARCH_MAX_RESULTS
        /\ TotalRepos >= count) =>
            /\ Len(result) = count
            /\ NoDuplicateIds(result)
            /\ SortedByStarsDescending(result)

\* The ranges in the work queue together with the ranges already handled.
KnownRanges ==
    {ranges_to_process[i] : i \in DOMAIN ranges_to_process}
        \cup {range_log[i].range : i \in DOMAIN range_log}

Overlap(r1, r2) ==
    /\ (r2.max_stars = None \/ r1.min_stars <= r2.max_stars)
    /\ (r1.max_stars = None \/ r2.min_stars <= r1.max_stars)

\* rs is a set of pairwise disjoint ranges whose union is lo..hi
\* (hi = None: every value from lo upwards)
PartitionOf(rs, lo, hi) ==
    /\ \A r1, r2 \in rs : r1 # r2 => ~Overlap(r1, r2)
    /\ \E r \in rs : r.min_stars = lo
    /\ \E r \in rs : r.max_stars = hi
    /\ \A r \in rs : r.min_stars >= lo
    /\ \A r \in rs : r.max_stars # hi =>
          /\ r.max_stars # None
          /\ \E r2 \in rs : r2.min_stars = r.max_stars + 1

\* C4: at every point of range-based discovery the ranges in the queue and
\* the ranges already fetched, failed or skipped are pairwise disjoint and
\* cover all star counts >= 0, no range is held twice, and the children
\* that subdividing the next range would produce cover exactly its span.
C4_RangesPartitionAxis ==
    pc \in {"ranges", "done"} /\ count > GITHUB_SEARCH_MAX_RESULTS =>
        /\ PartitionOf(KnownRanges, 0, None)
        /\ Cardinality(KnownRanges) = Len(ranges_to_process) + Len(range_log)
        /\ ranges_to_process # <<>> =>
              LET r  == Head(ranges_to_process)
                  ch == subdivide_stars_range(r.min_stars, r.max_stars)
              IN  /\ PartitionOf({ch[i] : i \in DOMAIN ch},
                                 r.min_stars, r.max_stars)
                  /\ Cardinality({ch[i] : i \in DOMAIN ch}) = Len(ch)

\* the open-ended band and a bounded band have been subdivided (down to a
\* half of a third of a quarter), and ranges were fetched, failed and skipped
C4_Witness ==
    /\ pc = "ranges"
    /\ Rg(200000, None) \in KnownRanges
    /\ Rg(6876, 7083) \in KnownRanges
    /\ \E i \in DOMAIN range_log : range_log[i].status = "fetched"
    /\ \E i \in DOMAIN range_log : range_log[i].status # "fetched"
    /\ ranges_to_process # <<>>

\* the head of the queue is a bounded range of at most 100 star values
\* whose probe reports more than the cap
MinSpanRangeOverCap ==
    /\ LoopRuns
    /\ LET r == Head(ranges_to_process)
       IN  /\ r.max_stars # None
           /\ r.max_stars - r.min_stars + 1 <= 100
           /\ TotalCount(r.min_stars, r.max_stars) > GITHUB_SEARCH_MAX_RESULTS

\* C15: a bounded range of at most 100 star values whose probed total
\* exceeds the cap is not put back on the queue: the iteration that pulls it
\* fetches it and leaves the rest of the queue for the next iteration.
C15_MinSpanRangeNotRequeued ==
    [][ MinSpanRangeOverCap =>
            /\ ranges_to_process' = Tail(ranges_to_process)
            /\ range_log' = Append(range_log, [range |-> Head(ranges_to_process),
                                               status |-> "fetched"]) ]_vars

\* the repositories the fetch of a range returns
FetchedFrom(r) ==
    search_single_query(r.min_stars, r.max_stars,
        Min(TotalCount(r.min_stars, r.max_stars), GITHUB_SEARCH_MAX_RESULTS), 0).repos

\* the repositories the provider holds for a range
MatchingRepos(r) ==
    Repos(QueryOffset(r.min_stars, r.max_stars) + 1,
          QueryOffset(r.min_stars, r.max_stars)
             + TotalCount(r.min_stars, r.max_stars))

\* C16: the fetch of a range whose probed total T is at most the cap
\* retrieves each of the T repositories of the range exactly once.
C16_FetchRetrievesEachOnce ==
    (range_log # <<>> /\ range_log[Len(range_log)].status = "fetched")
        => LET r == range_log[Len(range_log)].range
           IN  FetchedFrom(r) = MatchingRepos(r)

\* ids of the repositories fetched from the ranges logged as fetched
IdsOf(repos) == {repos[j].id : j \in DOMAIN repos}

FetchedIds ==
    UNION { IdsOf(FetchedFrom(range_log[i].range)) :
            i \in {k \in DOMAIN range_log : range_log[k].status = "fetched"} }

\* C17: when the probe of a range has failed, the range is skipped (it is
\* not in the queue any more), discovery has not raised, and the list it
\* returns holds the repositories fetched from the other ranges, up to the
\* target count.
C17_ProbeFailureSkipsRange ==
    \A i \in DOMAIN range_log :
        range_log[i].status = "probe_failed" =>
            /\ pc \in {"ranges", "done"}
            /\ \A j \in DOMAIN ranges_to_process :
                  ranges_to_process[j] # range_log[i].range
            /\ pc = "done" =>
                  LET ids == FetchedIds
                  IN  /\ IdsOf(result) \subseteq ids
                      /\ Len(result) = Min(count, Cardinality(ids))

\* a probe failed, later ranges were still fetched, and discovery returned
\* their repositories
C17_Witness ==
    /\ pc = "done"
    /\ \E i \in DOMAIN range_log :
          /\ range_log[i].status = "probe_failed"
          /\ \E j \in DOMAIN range_log :
                j > i /\ range_log[j].status = "fetched"
                      /\ FetchedFrom(range_log[j].range) # <<>>
    /\ result # <<>>

\* star count of the repository with an id
StarsAt(id) ==
    StarAnchors[CHOOSE g \in 1..Len(StarAnchors) :
                   GroupStart(g) < id /\ id <= GroupStart(g) + population[g]]

\* C27: without a failed range, the list returned by range-based discovery
\* holds the most popular matching repositories: no repository left out has
\* more stars than a returned one.
C27_MostPopularReturned ==
    (pc = "done" /\ count > GITHUB_SEARCH_MAX_RESULTS /\ failures = 0
        /\ result # <<>>) =>
        LET ids     == IdsOf(result)
            missing == {i \in 1..TotalRepos : i \notin ids}
        IN  \A m \in missing :
               StarsAt(m) <= result[Len(result)].stargazers_count

\* C29: when the probe or a page fetch of a range fails, the accumulated
\* list and the set of seen ids stay what they were before the range was
\* pulled, and the range leaves the queue for good.
C29_FailedRangeLeavesResultsUntouched ==
    [][ ( /\ Len(range_log') = Len(range_log) + 1
          /\ range_log'[Len(range_log')].status
                \in {"probe_failed", "fetch_failed"} )
        => /\ all_repos' = all_repos
           /\ seen_repo_ids' = seen_repo_ids
           /\ range_log'[Len(range_log')].range = Head(ranges_to_process)
           /\ ranges_to_process' = Tail(ranges_to_process)
           /\ \A j \in DOMAIN ranges_to_process' :
                 ranges_to_process'[j] # Head(ranges_to_process) ]_vars

\* after a range had been fetched, the fetch of a range of several pages
\* failed
C29_Witness ==
    /\ all_repos # <<>>
    /\ range_log # <<>>
    /\ LET last == range_log[Len(range_log)]
       IN  /\ last.status = "fetch_failed"
           /\ TotalCount(last.range.min_stars, last.range.max_stars) > per_page

\* ------------------------------------------------------------------------
\* _subdivide_stars_range on its own: applied to a range, then to children.
\* ------------------------------------------------------------------------

\* applications of _subdivide_stars_range in a row
MaxSubdivisions == 2

\* lower bounds of the open-ended ranges stars:>=n
OpenLowerBounds == (1..20) \cup {9999, 10000, 10001, 99999, 100000, 100001}

\* lower bounds and sizes of the bounded ranges
BoundedLowerBounds == {0, 1, 7, 1000}

RangeSizes == {101, 102, 103, 499, 500, 501, 502, 1999, 2000, 2001, 2002, 4000, 4001}

SubdivideInputs ==
    {Rg(lo, None) : lo \in OpenLowerBounds}
        \cup {Rg(lo, lo + size - 1) : lo \in BoundedLowerBounds, size \in RangeSizes}

InitSubdivide ==
    /\ population = [g \in 1..Len(StarAnchors) |-> 0]
    /\ count = 0
    /\ pc = "subdivide"
    /\ all_repos = <<>>
    /\ seen_repo_ids = {}
    /\ \E r \in SubdivideInputs : ranges_to_process = <<r>>
    /\ range_idx = 0
    /\ range_log = <<>>
    /\ failures = 0
    /\ result = <<>>
    /\ IdleClassify
    /\ now = 0
    /\ IdleCache
    /\ IdleRate
    /\ IdleBatch
    /\ IdleClient
    /\ IdleRace

\* sub_ranges = self._subdivide_stars_range(min_stars, max_stars) for one of
\* the ranges at hand
ApplySubdivide ==
    /\ pc = "subdivide"
    /\ range_idx < MaxSubdivisions
    /\ \E i \in DOMAIN ranges_to_process :
          LET r == ranges_to_process[i]
          IN  /\ ranges_to_process' =
                    subdivide_stars_range(r.min_stars, r.max_stars)
              /\ range_log' = <<[range |-> r, status |-> "subdivided"]>>
    /\ range_idx' = range_idx + 1
    /\ UNCHANGED <<population, count, pc, all_repos, seen_repo_ids,
                   failures, result>>
    /\ UNCHANGED <<classVars, now, cacheVars, rateVars, batchVars, clientVars,
                   raceVars>>

NextSubdivide == ApplySubdivide

SpecSubdivide == InitSubdivide /\ [][NextSubdivide]_vars

\* number of star values of a bounded range
RangeSize(r) == r.max_stars - r.min_stars + 1

MaxFiles == 2

Contents ==
    [superglobal : BOOLEAN, primary_function : BOOLEAN,
     variable_function : BOOLEAN, dynamic_include : BOOLEAN]

check_superglobal_requirement(content) == content.superglobal

check_primary_functions(content) == content.primary_function

check_variable_functions(content) == content.variable_function

check_fallback_includes(content) == content.dynamic_include

\* a summary dictionary; a key the code leaves out is None / "absent"
Summary(status, reason, prio, detection_type) ==
    [status |-> status, reason |-> reason, priority |-> prio,
     detection_type |-> detection_type]

\* the include check placed before the function check
generate_summary_includes_first(has_superglobal, has_dynamic_functions, has_dynamic_includes) ==
    IF ~has_superglobal
    THEN Summary("rejected", "No SuperGlobal usage found", 0, "absent")
    ELSE IF has_dynamic_includes
    THEN Summary("accepted", "Dynamic includes detected", 2,
                 "fallback_includes")
    ELSE IF has_dynamic_functions
    THEN Summary("accepted", "Dynamic functions detected", 1,
                 "primary_functions")
    ELSE Summary("rejected", "No dynamic functions or includes found", 0,
                 "absent")

generate_combined_summary(has_superglobal, has_dynamic_functions, has_dynamic_includes) ==
    IF ~has_superglobal
    THEN Summary("rejected", "No SuperGlobal usage found", 0, "absent")
    ELSE IF has_dynamic_functions
    THEN Summary("accepted", "Dynamic functions detected", 1,
                 "primary_functions")
    ELSE IF has_dynamic_includes
    THEN Summary("accepted", "Dynamic includes detected", 2,
                 "fallback_includes")
    ELSE Summary("rejected", "No dynamic functions or includes found", 0,
                 "absent")

\* PHPAnalyzer._generate_analysis_summary: the same decision, per file
generate_analysis_summary(has_superglobal, has_dynamic_functions, has_dynamic_includes) ==
    IF ~has_superglobal
    THEN Summary("rejected", "No SuperGlobal usage found", 0, "absent")
    ELSE IF has_dynamic_functions
    THEN Summary("accepted", "Dynamic functions detected", 1,
                 "primary_functions")
    ELSE IF has_dynamic_includes
    THEN Summary("accepted", "Dynamic includes detected", 2,
                 "fallback_includes")
    ELSE Summary("rejected", "No dynamic functions or includes found", 0,
                 "absent")

AnalysisOf(sg, fn, inc, summary) ==
    [has_superglobal |-> sg, has_dynamic_functions |-> fn,
     has_dynamic_includes |-> inc, analysis_summary |-> summary]

\* PHPAnalyzer.analyze_file_content: a file without a superglobal access is
\* returned at once, before the function and include detectors run; the
\* include detector runs only when no dynamic function was found.
analyze_file_content(content) ==
    IF ~check_superglobal_requirement(content)
    THEN AnalysisOf(FALSE, FALSE, FALSE,
                    Summary("rejected", "No SuperGlobal usage found", None,
                            "absent"))
    ELSE LET fn  == check_primary_functions(content)
                    \/ check_variable_functions(content)
             inc == IF fn THEN FALSE ELSE check_fallback_includes(content)
         IN  AnalysisOf(TRUE, fn, inc, generate_analysis_summary(TRUE, fn, inc))

analyze_multiple_files(contents) ==
    [i \in 1..Len(contents) |-> analyze_file_content(contents[i])]

combine_analysis_results(results) ==
    LET sg  == \E i \in 1..Len(results) : results[i].has_superglobal
        fn  == \E i \in 1..Len(results) : results[i].has_dynamic_functions
        inc == \E i \in 1..Len(results) : results[i].has_dynamic_includes
    IN  [stage |-> "combined", has_superglobal |-> sg,
         has_dynamic_functions |-> fn, has_dynamic_includes |-> inc,
         analysis_summary |-> generate_combined_summary(sg, fn, inc)]

\* SearchResult.is_qualified / priority / detection_type read the summary
is_qualified(analysis_result) ==
    analysis_result.analysis_summary.status = "accepted"

priority(analysis_result) ==
    IF analysis_result.analysis_summary.priority = None
    THEN 0
    ELSE analysis_result.analysis_summary.priority

FileSeqs(n) == UNION {[1..k -> Contents] : k \in 0..n}

InitClassify ==
    /\ IdleDiscovery
    /\ now = 0
    /\ IdleCache
    /\ IdleRate
    /\ IdleBatch
    /\ IdleClient
    /\ IdleRace
    /\ analysis_results = <<>>
    /\ \/ /\ cpc = "fetched"
          /\ file_contents \in FileSeqs(MaxFiles)
          /\ combined = [stage |-> "none"]
       \/ /\ cpc = "flags"
          /\ file_contents = <<>>
          /\ \E sg \in BOOLEAN, fn \in BOOLEAN, inc \in BOOLEAN :
                combined = [stage |-> "flags", has_superglobal |-> sg,
                            has_dynamic_functions |-> fn,
                            has_dynamic_includes |-> inc]

\* apply_filtering_logic: no file fetched, the repository is rejected
\* without analysis
NoFilesRejected ==
    /\ cpc = "fetched"
    /\ file_contents = <<>>
    /\ cpc' = "no_files"
    /\ UNCHANGED <<file_contents, analysis_results, combined>>
    /\ UNCHANGED <<discVars, now, cacheVars, rateVars, batchVars, clientVars,
                   raceVars>>

AnalyzeMultipleFiles ==
    /\ cpc = "fetched"
    /\ file_contents # <<>>
    /\ analysis_results' = analyze_multiple_files(file_contents)
    /\ cpc' = "analyzed"
    /\ UNCHANGED <<file_contents, combined>>
    /\ UNCHANGED <<discVars, now, cacheVars, rateVars, batchVars, clientVars,
                   raceVars>>

CombineAnalysisResults ==
    /\ cpc = "analyzed"
    /\ combined' = combine_analysis_results(analysis_results)
    /\ cpc' = "combined"
    /\ UNCHANGED <<file_contents, analysis_results>>
    /\ UNCHANGED <<discVars, now, cacheVars, rateVars, batchVars, clientVars,
                   raceVars>>

\* _generate_combined_summary applied to an aggregate given directly
GenerateCombinedSummary ==
    /\ cpc = "flags"
    /\ combined' =
         [stage |-> "combined",
          has_superglobal |-> combined.has_superglobal,
          has_dynamic_functions |-> combined.has_dynamic_functions,
          has_dynamic_includes |-> combined.has_dynamic_includes,
          analysis_summary |->
              generate_combined_summary(combined.has_superglobal,
                                        combined.has_dynamic_functions,
                                        combined.has_dynamic_includes)]
    /\ cpc' = "combined"
    /\ UNCHANGED <<file_contents, analysis_results>>
    /\ UNCHANGED <<discVars, now, cacheVars, rateVars, batchVars, clientVars,
                   raceVars>>

NextClassify ==
    \/ NoFilesRejected
    \/ AnalyzeMultipleFiles
    \/ CombineAnalysisResults
    \/ GenerateCombinedSummary

SpecClassify == InitClassify /\ [][NextClassify]_vars

\* The fixed classification table, one row per flag combination:
\* <<has_superglobal, has_dynamic_functions, has_dynamic_includes,
\*   status, priority, detection_type>>
ClassificationTable ==
    { <<FALSE, FALSE, FALSE, "rejected", 0, "absent">>,
      <<FALSE, FALSE, TRUE,  "rejected", 0, "absent">>,
      <<FALSE, TRUE,  FALSE, "rejected", 0, "absent">>,
      <<FALSE, TRUE,  TRUE,  "rejected", 0, "absent">>,
      <<TRUE,  FALSE, FALSE, "rejected", 0, "absent">>,
      <<TRUE,  FALSE, TRUE,  "accepted", 2, "fallback_includes">>,
      <<TRUE,  TRUE,  FALSE, "accepted", 1, "primary_functions">>,
      <<TRUE,  TRUE,  TRUE,  "accepted", 1, "primary_functions">> }

RowOf(a) ==
    << a.has_superglobal, a.has_dynamic_functions, a.has_dynamic_includes,
       a.analysis_summary.status, priority(a),
       a.analysis_summary.detection_type >>

\* C5: the classification computed from the three aggregated flags is the
\* row of the fixed table for those flags, for each of the 8 combinations
\* (and likewise the per-file summary of every analyzed file); a repository
\* is accepted only if it has superglobal evidence.
C5_ClassificationTable ==
    /\ cpc = "combined" =>
          /\ RowOf(combined) \in ClassificationTable
          /\ is_qualified(combined) => combined.has_superglobal
    /\ \A i \in 1..Len(analysis_results) :
          RowOf(analysis_results[i]) \in ClassificationTable

\* all three flags set: the function evidence wins, priority 1
C5_Witness ==
    /\ cpc = "combined"
    /\ combined.has_superglobal
    /\ combined.has_dynamic_functions
    /\ combined.has_dynamic_includes
    /\ is_qualified(combined)
    /\ priority(combined) = 1

HasFunctionCall(content) ==
    content.primary_function \/ content.variable_function

\* C6: when some fetched file contains a dynamic function call and some
\* fetched file (the same or another) contains a superglobal access, the
\* repository is accepted with priority 1.
C6_UnionOfEvidence ==
    ( /\ cpc = "combined"
      /\ \E i \in 1..Len(file_contents) : HasFunctionCall(file_contents[i])
      /\ \E j \in 1..Len(file_contents) : file_contents[j].superglobal )
    => ( is_qualified(combined) /\ priority(combined) = 1 )

\* ------------------------------------------------------------------------
\* CacheManager (cache_manager.py): one SQLite table `cache` with columns
\* key (PRIMARY KEY), value (JSON text), created_at, expires_at.  The table
\* is a set of rows; time.time() is the clock `now`.
\* ------------------------------------------------------------------------

\* the clock stops here
MaxTime == 4

Keys == {"k1", "k2"}

\* Python values handed to set(): an empty list and a one-element list,
\* and a one-character string
PyEmptyList == [kind |-> "list", items |-> <<>>]

PyList == [kind |-> "list", items |-> <<7>>]

PyNone == [kind |-> "none", items |-> <<>>]

Values == {PyEmptyList, PyList}

\* json.dumps / json.loads between Python values and the stored text
PyStr == [kind |-> "str", items |-> <<1>>]

JsonCodec ==
    { <<PyNone, "null">>, <<PyEmptyList, "[]">>, <<PyList, "[7]">>,
      <<PyStr, "\"x\"">> }

json_dumps(v) == (CHOOSE p \in JsonCodec : p[1] = v)[2]

json_loads(text) == (CHOOSE p \in JsonCodec : p[2] = text)[1]

\* the expire_after argument of set(): omitted (None), 0, or seconds
TtlArgs == {None, 0, 1, 2}

\* the expire_after argument of the constructor
DefaultTtls == {3}

Row(k, text, created, expires) ==
    [key |-> k, value |-> text, created_at |-> created, expires_at |-> expires]

\* SELECT value, expires_at FROM cache WHERE key = ?
RowsOf(k) == {r \in store : r.key = k}

\* the default always used, whatever the argument
expire_time_default_only(ttl) == expire_after

\* expire_time = expire_after or self.expire_after
expire_time(ttl) == IF ttl = None \/ ttl = 0 THEN expire_after ELSE ttl

\* an entry served for one more second
is_expired_late(t, row) == t > row.expires_at + 1

\* if time.time() > expires_at
is_expired(t, row) == t > row.expires_at

NoWrite == [present |-> FALSE]

NoGet == [op |-> "none"]

InitCache ==
    /\ IdleDiscovery
    /\ IdleClassify
    /\ IdleRate
    /\ IdleBatch
    /\ IdleClient
    /\ IdleRace
    /\ now = 0
    /\ expire_after \in DefaultTtls
    /\ store = {}
    /\ last_get = NoGet
    /\ written = [k \in Keys |-> NoWrite]

\* CacheManager.set: INSERT OR REPLACE on the primary key
CacheSet(k, v, ttl) ==
    /\ store' = (store \ RowsOf(k))
                 \cup {Row(k, json_dumps(v), now, now + expire_time(ttl))}
    /\ written' = [written EXCEPT ![k] =
                      [present |-> TRUE, value |-> v, at |-> now, ttl |-> ttl,
                       replaced |-> RowsOf(k) # {}]]
    /\ last_get' = NoGet
    /\ UNCHANGED <<now, expire_after>>
    /\ UNCHANGED <<discVars, classVars, rateVars, batchVars, clientVars,
                   raceVars>>

\* CacheManager.get: a missing row is a miss; a stale row is deleted and is
\* a miss; otherwise the decoded value is returned
CacheGet(k) ==
    /\ IF RowsOf(k) = {}
       THEN /\ last_get' = [op |-> "get", key |-> k, at |-> now,
                            found |-> FALSE, hit |-> FALSE,
                            returned |-> PyNone, evicted |-> FALSE]
            /\ store' = store
       ELSE LET row == CHOOSE r \in RowsOf(k) : TRUE
            IN  IF is_expired(now, row)
                THEN /\ store' = store \ RowsOf(k)
                     /\ last_get' = [op |-> "get", key |-> k, at |-> now,
                                     found |-> TRUE, hit |-> FALSE,
                                     returned |-> PyNone, evicted |-> TRUE]
                ELSE /\ store' = store
                     /\ last_get' = [op |-> "get", key |-> k, at |-> now,
                                     found |-> TRUE, hit |-> TRUE,
                                     returned |-> json_loads(row.value),
                                     evicted |-> FALSE]
    /\ UNCHANGED <<now, expire_after, written>>
    /\ UNCHANGED <<discVars, classVars, rateVars, batchVars, clientVars,
                   raceVars>>

\* CacheManager.delete
CacheDelete(k) ==
    /\ RowsOf(k) # {}
    /\ store' = store \ RowsOf(k)
    /\ written' = [written EXCEPT ![k] = NoWrite]
    /\ last_get' = [op |-> "delete"]
    /\ UNCHANGED <<now, expire_after>>
    /\ UNCHANGED <<discVars, classVars, rateVars, batchVars, clientVars,
                   raceVars>>

\* CacheManager.clear
CacheClear ==
    /\ store # {}
    /\ store' = {}
    /\ written' = [k \in Keys |-> NoWrite]
    /\ last_get' = [op |-> "clear"]
    /\ UNCHANGED <<now, expire_after>>
    /\ UNCHANGED <<discVars, classVars, rateVars, batchVars, clientVars,
                   raceVars>>

\* CacheManager.cleanup_expired: DELETE FROM cache WHERE expires_at < now
CacheCleanupExpired ==
    /\ \E r \in store : r.expires_at < now
    /\ store' = {r \in store : ~(r.expires_at < now)}
    /\ last_get' = NoGet
    /\ UNCHANGED <<now, expire_after, written>>
    /\ UNCHANGED <<discVars, classVars, rateVars, batchVars, clientVars,
                   raceVars>>

\* time passes between two cache operations
CacheTick ==
    /\ now < MaxTime
    /\ now' = now + 1
    /\ last_get' = NoGet
    /\ UNCHANGED <<expire_after, store, written>>
    /\ UNCHANGED <<discVars, classVars, rateVars, batchVars, clientVars,
                   raceVars>>

NextCache ==
    \/ \E k \in Keys, v \in Values, ttl \in TtlArgs : CacheSet(k, v, ttl)
    \/ \E k \in Keys : CacheGet(k)
    \/ \E k \in Keys : CacheDelete(k)
    \/ CacheClear
    \/ CacheCleanupExpired
    \/ CacheTick

SpecCache == InitCache /\ [][NextCache]_vars

\* C7: after set(key, v, ttl) with ttl > 0, a get(key) at a time not later
\* than ttl after the set returns v, the value most recently set for the key
\* (the table never holds two rows for one key); a get later than that is a
\* miss.
C7_SetThenGet ==
    /\ \A k \in Keys : Cardinality(RowsOf(k)) <= 1
    /\ ( /\ last_get.op = "get"
         /\ written[last_get.key].present
         /\ written[last_get.key].ttl > 0 )
       => LET w == written[last_get.key]
          IN  IF last_get.at <= w.at + w.ttl
              THEN last_get.hit /\ last_get.returned = w.value
              ELSE ~last_get.hit /\ last_get.returned = PyNone

\* a get, some time after a set that replaced an earlier entry, returns the
\* replacing value
C7_Witness ==
    /\ last_get.op = "get"
    /\ last_get.hit
    /\ written[last_get.key].present
    /\ written[last_get.key].ttl > 0
    /\ written[last_get.key].replaced
    /\ last_get.at > written[last_get.key].at
    /\ last_get.returned = written[last_get.key].value

\* C8: a get never serves a row whose expires_at is earlier than the clock;
\* a get that finds such a row reports a miss and deletes that row, leaving
\* the rows of every other key as they were.
C8_StaleNeverServed ==
    [][ \A k \in Keys :
          CacheGet(k) =>
            /\ last_get'.hit =>
                  \A r \in RowsOf(k) : ~(r.expires_at < now)
            /\ (\E r \in RowsOf(k) : r.expires_at < now) =>
                  /\ ~last_get'.hit
                  /\ last_get'.returned = PyNone
                  /\ store' = store \ RowsOf(k)
                  /\ \A r \in store : r.key # k => r \in store' ]_vars

\* a stale entry has just been evicted by a get while another key's entry
\* is still stored
C8_Witness ==
    /\ last_get.op = "get"
    /\ last_get.evicted
    /\ \E r \in store : r.key # last_get.key

\* ------------------------------------------------------------------------
\* RateLimitHandler (rate_limit_handler.py) and the two GitHub clients that
\* hold one: the PyGithub client of php_dynctrlflow/github_client.py, which
\* keeps the handler "for compatibility" and never calls it, and the
\* requests client of src/github_client.py, which calls wait_if_needed
\* before and update_from_response after every request.  Time is in seconds.
\* ------------------------------------------------------------------------

\* handler or client operations in one run
MaxOps == 3

\* wait_for_rate_limit_reset: "if wait_time > 3600"
MaxResetWait == 3600

ClientImpls == {"pygithub", "requests"}

RequestDelays == {1, 2}

Endpoints ==
    {"search_repositories_optimized", "search_code_in_repository",
     "get_file_content", "get_branch_commit_sha"}

\* the requests client has no branch lookup
EndpointsOf(impl) ==
    IF impl = "requests"
    THEN Endpoints \ {"get_branch_commit_sha"}
    ELSE Endpoints

\* X-RateLimit-Remaining / X-RateLimit-Reset of a response received at t;
\* None is a missing header
Responses(t) ==
    [remaining : {None, 0, 7},
     reset : {None, t - 1, t + 1, t + MaxResetWait, t + MaxResetWait + 1}]

\* should_wait / get_wait_time at time t
should_wait(t) ==
    IF last_request_time = None
    THEN FALSE
    ELSE t - last_request_time < request_delay

get_wait_time(t) ==
    IF ~should_wait(t)
    THEN 0
    ELSE Max(0, request_delay - (t - last_request_time))

\* check_rate_limit: the reset time is replaced only when the header is
\* there; remaining 0 raises
check_rate_limit(resp, known_reset) ==
    [remaining |-> resp.remaining,
     reset |-> IF resp.reset # None /\ resp.reset # 0
               THEN resp.reset
               ELSE known_reset,
     raised |-> resp.remaining = 0]

\* the wait without its ceiling
wait_for_rate_limit_reset_unbounded(t, reset) ==
    IF reset = None
    THEN [raised |-> TRUE, slept |-> 0]
    ELSE [raised |-> FALSE, slept |-> Max(0, reset - t)]

\* wait_for_rate_limit_reset at time t
wait_for_rate_limit_reset(t, reset) ==
    IF reset = None
    THEN [raised |-> TRUE, slept |-> 0]
    ELSE LET wait_time == reset - t
         IN  IF wait_time > 0
             THEN IF wait_time > MaxResetWait
                  THEN [raised |-> TRUE, slept |-> 0]
                  ELSE [raised |-> FALSE, slept |-> wait_time]
             ELSE [raised |-> FALSE, slept |-> 0]

\* update_from_response at time t: what the handler holds afterwards,
\* whether RateLimitError leaves the call, and how long it slept
update_from_response(t, resp, known_reset) ==
    LET checked == check_rate_limit(resp, known_reset)
        waited  == IF checked.raised
                   THEN wait_for_rate_limit_reset(t, checked.reset)
                   ELSE [raised |-> FALSE, slept |-> 0]
    IN  [called |-> TRUE, t0 |-> t, remaining |-> checked.remaining,
         reset |-> checked.reset, raised |-> waited.raised,
         slept |-> waited.slept, t1 |-> t + waited.slept]

NoUfr == [called |-> FALSE]

InitRate ==
    /\ IdleDiscovery
    /\ IdleClassify
    /\ IdleCache
    /\ IdleBatch
    /\ IdleClient
    /\ IdleRace
    /\ now = 10
    /\ client_impl \in ClientImpls
    /\ request_delay \in RequestDelays
    /\ rate_limit_remaining = None
    /\ rate_limit_reset = None
    /\ last_request_time = None
    /\ call_starts = <<>>
    /\ ufr = NoUfr
    /\ ops = 0

\* RateLimitHandler.wait_if_needed called on its own
HandlerWaitIfNeeded ==
    /\ ops < MaxOps
    /\ ops' = ops + 1
    /\ now' = now + get_wait_time(now)
    /\ last_request_time' = now'
    /\ ufr' = NoUfr
    /\ UNCHANGED <<client_impl, request_delay, rate_limit_remaining,
                   rate_limit_reset, call_starts>>
    /\ UNCHANGED <<discVars, classVars, cacheVars, batchVars, clientVars,
                   raceVars>>

\* RateLimitHandler.update_from_response called on its own
HandlerUpdateFromResponse(resp) ==
    /\ ops < MaxOps
    /\ ops' = ops + 1
    /\ ufr' = update_from_response(now, resp, rate_limit_reset)
    /\ rate_limit_remaining' = ufr'.remaining
    /\ rate_limit_reset' = ufr'.reset
    /\ now' = ufr'.t1
    /\ UNCHANGED <<client_impl, request_delay, last_request_time, call_starts>>
    /\ UNCHANGED <<discVars, classVars, cacheVars, batchVars, clientVars,
                   raceVars>>

\* a live call of the PyGithub client: the request goes out at once, the
\* handler is neither asked to wait nor told of the response
PyGithubLiveCall(endpoint) ==
    /\ client_impl = "pygithub"
    /\ ops < MaxOps
    /\ ops' = ops + 1
    /\ call_starts' = Append(call_starts, [endpoint |-> endpoint, at |-> now])
    /\ ufr' = NoUfr
    /\ UNCHANGED <<now, client_impl, request_delay, rate_limit_remaining,
                   rate_limit_reset, last_request_time>>
    /\ UNCHANGED <<discVars, classVars, cacheVars, batchVars, clientVars,
                   raceVars>>

\* a live call of the requests client: wait_if_needed, session.get,
\* update_from_response
RequestsLiveCall(endpoint, remaining, reset_offset) ==
    /\ client_impl = "requests"
    /\ ops < MaxOps
    /\ ops' = ops + 1
    /\ LET start == now + get_wait_time(now)
           resp  == [remaining |-> remaining,
                     reset |-> IF reset_offset = None
                               THEN None
                               ELSE start + reset_offset]
       IN  /\ resp \in Responses(start)
           /\ last_request_time' = start
           /\ call_starts' =
                 Append(call_starts, [endpoint |-> endpoint, at |-> start])
           /\ ufr' = update_from_response(start, resp, rate_limit_reset)
    /\ rate_limit_remaining' = ufr'.remaining
    /\ rate_limit_reset' = ufr'.reset
    /\ now' = ufr'.t1
    /\ UNCHANGED <<client_impl, request_delay>>
    /\ UNCHANGED <<discVars, classVars, cacheVars, batchVars, clientVars,
                   raceVars>>

\* time passes between two operations
RateTick ==
    /\ ops < MaxOps
    /\ ops' = ops + 1
    /\ now' = now + 1
    /\ ufr' = NoUfr
    /\ UNCHANGED <<client_impl, request_delay, rate_limit_remaining,
                   rate_limit_reset, last_request_time, call_starts>>
    /\ UNCHANGED <<discVars, classVars, cacheVars, batchVars, clientVars,
                   raceVars>>

ResetOffsets == {None, -1, 1, MaxResetWait, MaxResetWait + 1}

NextRate ==
    \/ HandlerWaitIfNeeded
    \/ \E resp \in Responses(now) : HandlerUpdateFromResponse(resp)
    \/ \E e \in EndpointsOf(client_impl) : PyGithubLiveCall(e)
    \/ \E e \in EndpointsOf(client_impl), r \in {None, 0, 7},
          o \in ResetOffsets : RequestsLiveCall(e, r, o)
    \/ RateTick

SpecRate == InitRate /\ [][NextRate]_vars

\* C9: through one client, two consecutive live provider calls, whatever
\* their endpoints, start at least request_delay apart.
C9_CallsPaced ==
    \A i \in 1..(Len(call_starts) - 1) :
        call_starts[i + 1].at - call_starts[i].at >= request_delay

C11_ExhaustedAlwaysRaises ==
    (ufr.called /\ ufr.remaining = 0) => ufr.raised

\* ------------------------------------------------------------------------
\* The batch run: ProjectSearcher.search_projects, _process_batch,
\* apply_filtering_logic and _get_project_files.  The discovered list is
\* given by its length; what the provider answers for a repository (branch
\* lookup, code search, file contents) is chosen when the call is made.
\* ------------------------------------------------------------------------

\* length of the discovered list
MaxRepos == 2

BatchSizes == {-1, 0, 1, 2}

\* the configured search.max_files_per_project
MaxFilesSettings == {1, 2}

\* Python's a // b
FloorDiv(a, b) == IF b > 0 THEN a \div b ELSE (-a) \div (-b)

\* Python's seq[start:stop]
PySlice(seq, start, stop) ==
    LET n == Len(seq)
        norm(x) == IF x < 0 THEN Max(0, x + n) ELSE Min(x, n)
    IN  SubSeq(seq, norm(start) + 1, norm(stop))

\* the number of full batches only
total_batches_full_only ==
    FloorDiv(Len(repository_results), batch_size)

\* total_batches = (len(repository_results) + batch_size - 1) // batch_size
total_batches ==
    FloorDiv(Len(repository_results) + batch_size - 1, batch_size)

\* outcome of the provider's branch lookup
BranchOutcomes == {"ok", "not_found", "error"}

\* GitHubAPIClient.get_branch_commit_sha: the SHA, or GitHubAPIError for a
\* 404 as for any other failure of the lookup
get_branch_commit_sha(outcome, branch) ==
    IF outcome = "ok"
    THEN [raised |-> FALSE, value |-> "sha"]
    ELSE [raised |-> TRUE, value |-> "none"]

\* SearchResult.from_repository_item: the commit hash defaults to the branch
\* name and is replaced by the SHA unless the lookup raises
from_repository_item(repo_item, outcome) ==
    LET default_branch == "main"
        sha == get_branch_commit_sha(outcome, default_branch)
    IN  [id |-> repo_item,
         commit_hash |-> IF sha.raised THEN default_branch ELSE sha.value,
         analysis_error |-> FALSE,
         rejection_reason |-> FALSE,
         analysis_result |-> [stage |-> "none"]]

\* what get_branch_commit_sha was asked and what it did
LookupOf(repo_item, outcome) ==
    LET sha == get_branch_commit_sha(outcome, "main")
    IN  [id |-> repo_item, branch |-> "main", outcome |-> outcome,
         raised |-> sha.raised, returned |-> sha.value]

\* what the fetched files of a run contain
BatchContents ==
    {c \in Contents : ~c.variable_function /\ ~c.dynamic_include
                        /\ (c.superglobal \/ c.primary_function)}

\* get_file_content raised
FetchFailed == [fetch_failed |-> TRUE]

\* the paths of the code search results, some of them repeated
PathLists == {<<>>, <<1>>, <<1, 1>>, <<1, 2>>, <<2, 1, 2>>, <<1, 2, 3>>}

RECURSIVE SeqOfSet(_)
SeqOfSet(S) ==
    IF S = {}
    THEN <<>>
    ELSE LET x == CHOOSE y \in S : \A z \in S : y <= z
         IN  <<x>> \o SeqOfSet(S \ {x})

\* the classification a result carries
Tag(r) ==
    IF r.analysis_error
    THEN "errored"
    ELSE IF r.analysis_result.stage = "combined" /\ is_qualified(r.analysis_result)
    THEN "qualified"
    ELSE "rejected"

\* _update_search_stats: error_projects is left as it is
update_search_stats(results, stats) ==
    LET qualified == Cardinality({i \in DOMAIN results : Tag(results[i]) = "qualified"})
    IN  [stats EXCEPT !.total_searched = Len(results),
                      !.qualified_projects = qualified,
                      !.rejected_projects = Len(results) - qualified]

InitBatch ==
    /\ IdleDiscovery
    /\ IdleClassify
    /\ IdleCache
    /\ IdleRate
    /\ IdleClient
    /\ IdleRace
    /\ now = 0
    /\ batch_size \in BatchSizes
    /\ max_files \in MaxFilesSettings
    /\ repository_results = <<>>
    /\ bpc = "start"
    /\ batch_num = 0
    /\ batch_results = <<>>
    /\ cur = 0
    /\ filtered_results = <<>>
    /\ error_count = 0
    /\ all_qualified_results = <<>>
    /\ search_stats = [total_searched |-> 0, qualified_projects |-> 0,
                       rejected_projects |-> 0, error_projects |-> 0]
    /\ lookups = <<>>
    /\ fetch_log = NoFetch
    /\ evaluated = <<>>

\* search_projects: discovery returns n repositories; the number of batches
\* is computed (a division by batch_size) inside the try block
DiscoverRepositories(n) ==
    /\ bpc = "start"
    /\ repository_results' = [i \in 1..n |-> i]
    /\ bpc' = IF batch_size = 0 THEN "raised" ELSE "batching"
    /\ UNCHANGED <<batch_size, batch_num, batch_results, cur, filtered_results,
                   error_count, all_qualified_results, search_stats,
                   max_files, lookups, fetch_log, evaluated>>
    /\ UNCHANGED <<discVars, classVars, now, cacheVars, rateVars, clientVars,
                   raceVars>>

\* search_projects: discovery raises, the run fails
DiscoveryFails ==
    /\ bpc = "start"
    /\ bpc' = "raised"
    /\ UNCHANGED <<batch_size, repository_results, batch_num, batch_results,
                   cur, filtered_results, error_count, all_qualified_results,
                   search_stats, max_files, lookups, fetch_log, evaluated>>
    /\ UNCHANGED <<discVars, classVars, now, cacheVars, rateVars, clientVars,
                   raceVars>>

\* search_projects takes the next slice; _process_batch turns every item
\* into a SearchResult and enters apply_filtering_logic
StartBatch ==
    /\ bpc = "batching"
    /\ batch_num < total_batches
    /\ batch_num' = batch_num + 1
    /\ LET start_idx   == (batch_num' - 1) * batch_size
           end_idx     == Min(start_idx + batch_size, Len(repository_results))
           batch_repos == PySlice(repository_results, start_idx, end_idx)
       IN  \E outcomes \in [1..Len(batch_repos) -> BranchOutcomes] :
              /\ batch_results' =
                    [i \in 1..Len(batch_repos) |->
                        from_repository_item(batch_repos[i], outcomes[i])]
              /\ lookups' =
                    [i \in 1..Len(batch_repos) |->
                        LookupOf(batch_repos[i], outcomes[i])]
    /\ cur' = 1
    /\ filtered_results' = <<>>
    /\ error_count' = 0
    /\ fetch_log' = NoFetch
    /\ bpc' = "filtering"
    /\ UNCHANGED <<batch_size, repository_results, all_qualified_results,
                   search_stats, max_files, evaluated>>
    /\ UNCHANGED <<discVars, classVars, now, cacheVars, rateVars, clientVars,
                   raceVars>>

Outcome(r, evidence) ==
    [id |-> r.id, batch |-> batch_num, tag |-> Tag(r), evidence |-> evidence]

\* apply_filtering_logic, one iteration: _get_project_files raises
\* GitHubAPIError because the code search failed; the result gets the
\* analysis_error metadata and the local counter goes up
CandidateSearchFails ==
    /\ bpc = "filtering"
    /\ cur <= Len(batch_results)
    /\ LET r == [batch_results[cur] EXCEPT !.analysis_error = TRUE]
       IN  /\ batch_results' = [batch_results EXCEPT ![cur] = r]
           /\ evaluated' = Append(evaluated, Outcome(r, "search_failed"))
    /\ error_count' = error_count + 1
    /\ cur' = cur + 1
    /\ fetch_log' = NoFetch
    /\ UNCHANGED <<batch_size, repository_results, bpc, batch_num,
                   filtered_results, all_qualified_results, search_stats,
                   max_files, lookups>>
    /\ UNCHANGED <<discVars, classVars, now, cacheVars, rateVars, clientVars,
                   raceVars>>

\* no cut of the list of unique paths
fetch_limit_unbounded(n) == n

\* the length of list(unique_paths)[:max_files]
fetch_limit(n) == Min(max_files, n)

EvidenceOf(selected, failed) ==
    IF selected = {} THEN "no_candidates"
    ELSE IF failed = {} THEN "complete"
    ELSE IF failed = selected THEN "all_fetches_failed"
    ELSE "partial"

\* apply_filtering_logic, one iteration.  _get_project_files: the code
\* search answers; the unique paths, cut to max_files in the order of a
\* Python set, are fetched one by one and a failed fetch is skipped.  Without
\* files the result gets the rejection_reason metadata; otherwise the files
\* are analyzed, the result takes the combined analysis and is appended to
\* filtered_results when it is qualified.
EvaluateResult(paths, selected, fetched) ==
    /\ bpc = "filtering"
    /\ cur <= Len(batch_results)
    /\ LET unique_paths == {paths[i] : i \in DOMAIN paths}
       IN  /\ selected \subseteq unique_paths
           /\ Cardinality(selected) = fetch_limit(Cardinality(unique_paths))
    /\ DOMAIN fetched = selected
    /\ LET failed == {f \in selected : fetched[f] = FetchFailed}
           ok     == SeqOfSet(selected \ failed)
           files  == [i \in 1..Len(ok) |-> fetched[ok[i]]]
           r      == IF files = <<>>
                     THEN [batch_results[cur] EXCEPT !.rejection_reason = TRUE]
                     ELSE [batch_results[cur] EXCEPT !.analysis_result =
                              combine_analysis_results(
                                  analyze_multiple_files(files))]
       IN  /\ fetch_log' = [searched |-> TRUE, candidates |-> paths,
                            fetches |-> SeqOfSet(selected), failed |-> failed]
           /\ batch_results' = [batch_results EXCEPT ![cur] = r]
           /\ filtered_results' =
                 IF Tag(r) = "qualified"
                 THEN Append(filtered_results, r)
                 ELSE filtered_results
           /\ evaluated' =
                 Append(evaluated, Outcome(r, EvidenceOf(selected, failed)))
    /\ cur' = cur + 1
    /\ UNCHANGED <<batch_size, repository_results, bpc, batch_num,
                   error_count, all_qualified_results, search_stats,
                   max_files, lookups>>
    /\ UNCHANGED <<discVars, classVars, now, cacheVars, rateVars, clientVars,
                   raceVars>>

\* apply_filtering_logic returns; search_projects extends the accumulator
EndBatch ==
    /\ bpc = "filtering"
    /\ cur > Len(batch_results)
    /\ all_qualified_results' = all_qualified_results \o filtered_results
    /\ batch_results' = <<>>
    /\ filtered_results' = <<>>
    /\ cur' = 0
    /\ lookups' = <<>>
    /\ fetch_log' = NoFetch
    /\ bpc' = "batching"
    /\ UNCHANGED <<batch_size, repository_results, batch_num, error_count,
                   search_stats, max_files, evaluated>>
    /\ UNCHANGED <<discVars, classVars, now, cacheVars, rateVars, clientVars,
                   raceVars>>

\* search_projects: after the last batch the statistics are updated and the
\* accumulated results are returned
FinishRun ==
    /\ bpc = "batching"
    /\ batch_num >= total_batches
    /\ search_stats' = update_search_stats(all_qualified_results, search_stats)
    /\ bpc' = "returned"
    /\ UNCHANGED <<batch_size, repository_results, batch_num, batch_results,
                   cur, filtered_results, error_count, all_qualified_results,
                   max_files, lookups, fetch_log, evaluated>>
    /\ UNCHANGED <<discVars, classVars, now, cacheVars, rateVars, clientVars,
                   raceVars>>

NextBatch ==
    \/ \E n \in 0..MaxRepos : DiscoverRepositories(n)
    \/ DiscoveryFails
    \/ StartBatch
    \/ CandidateSearchFails
    \/ \E paths \in PathLists :
          \E selected \in SUBSET {paths[i] : i \in DOMAIN paths} :
             \E fetched \in [selected -> BatchContents \cup {FetchFailed}] :
                EvaluateResult(paths, selected, fetched)
    \/ EndBatch
    \/ FinishRun

SpecBatch == InitBatch /\ [][NextBatch]_vars

\* the evaluated repositories whose candidate search failed or whose file
\* fetches all failed
FailedEvaluations ==
    {i \in DOMAIN evaluated :
        evaluated[i].evidence \in {"search_failed", "all_fetches_failed"}}

\* C12: when a run has returned and exactly one of its repositories failed
\* its candidate search or every one of its file fetches, that repository
\* is tagged errored and the statistics report error_projects = 1.
C12_OneFailureCountedAsError ==
    (bpc = "returned" /\ Cardinality(FailedEvaluations) = 1)
        => /\ \A i \in FailedEvaluations : evaluated[i].tag = "errored"
           /\ search_stats.error_projects = 1

\* C13: get_branch_commit_sha returns the branch name and does not raise
\* whenever the provider lookup fails.
C13_LookupFallsBackToBranch ==
    \A i \in DOMAIN lookups :
        lookups[i].outcome # "ok"
            => ~lookups[i].raised /\ lookups[i].returned = lookups[i].branch

\* C18: set(key, payload, ttl) stores expires_at = now + ttl for every ttl
\* the caller passes, ttl = 0 included.
C18_SetStoresNowPlusTtl ==
    \A k \in Keys :
        (written[k].present /\ written[k].ttl # None)
            => \A r \in RowsOf(k) :
                  r.expires_at = written[k].at + written[k].ttl

\* ------------------------------------------------------------------------
\* GitHubAPIClient.search_code_in_repository and get_file_content with the
\* cache: php_dynctrlflow/github_client.py (PyGithub) and
\* src/github_client.py (requests, paced by the RateLimitHandler).
\* ------------------------------------------------------------------------

\* cache_manager.set(cache_key, results, expire_after=3600)
SearchCodeTtl == 3600

\* cache_manager.set(cache_key, content, expire_after=1800)
FileContentTtl == 1800

CachedEndpoints == {"search_code_in_repository", "get_file_content"}

\* generate_cache_key(url, params); one request per endpoint
cache_key(endpoint) ==
    IF endpoint = "search_code_in_repository" THEN "k1" ELSE "k2"

ttl_of(endpoint) ==
    IF endpoint = "search_code_in_repository"
    THEN SearchCodeTtl
    ELSE FileContentTtl

PayloadsOf(endpoint) ==
    IF endpoint = "search_code_in_repository"
    THEN {PyEmptyList, PyList}
    ELSE {PyStr}

\* what the provider does with the live call
ProviderAnswers(endpoint) ==
    {[status |-> "ok", payload |-> p] : p \in PayloadsOf(endpoint)}
        \cup {[status |-> st, payload |-> PyNone] :
                 st \in {"not_found", "error", "network_error"}}

\* sqlite3.Error in CacheManager.get or in CacheManager.set
CacheFaults == {"none", "read", "write"}

\* the rate-limit headers of a response: remaining, and the reset time as
\* an offset from the time of the request
ClientRateHeaders == {<<7, None>>, <<0, None>>, <<0, 1>>}

\* seconds that pass between two calls
ClockSteps == {1800, 3601}

\* bool(v) in Python
truthy(v) == v.kind # "none" /\ v.items # <<>>

\* "if cached_result and isinstance(cached_result, list)" (str for file
\* contents) in the PyGithub client, "if cached_result" in the requests client
is_cache_hit(impl, endpoint, cached) ==
    IF impl = "pygithub"
    THEN /\ truthy(cached)
         /\ cached.kind = (IF endpoint = "search_code_in_repository"
                           THEN "list" ELSE "str")
    ELSE truthy(cached)

\* CacheManager.get on the table st at time t: the value and the table
cache_get(st, k, t) ==
    LET rows == {r \in st : r.key = k}
    IN  IF rows = {}
        THEN [value |-> PyNone, store |-> st]
        ELSE LET row == CHOOSE r \in rows : TRUE
             IN  IF is_expired(t, row)
                 THEN [value |-> PyNone, store |-> st \ rows]
                 ELSE [value |-> json_loads(row.value), store |-> st]

\* CacheManager.set on the table st at time t
cache_set(st, k, v, ttl, t) ==
    {r \in st : r.key # k} \cup {Row(k, json_dumps(v), t, t + expire_time(ttl))}

\* whatever the provider answered is cached
store_after_answer_caching_failures(st, k, answer, ttl, t) ==
    cache_set(st, k, answer.payload, ttl, t)

\* the table after the live call: only a successful answer is cached
store_after_answer(st, k, answer, ttl, t) ==
    IF answer.status = "ok"
    THEN cache_set(st, k, answer.payload, ttl, t)
    ELSE st

CallResult(outcome, returned, live, st, start, t1, u) ==
    [outcome |-> outcome, returned |-> returned, live |-> live,
     store |-> st, start |-> start, t1 |-> t1, u |-> u]

\* the PyGithub client: the cache lookup is outside the try block; the
\* live call and cache_manager.set are inside it, and "except Exception"
\* turns every failure into GitHubAPIError
pygithub_call(endpoint, fault, answer) ==
    LET k      == cache_key(endpoint)
        looked == cache_get(store, k, now)
    IN  IF fault = "read"
        THEN CallResult("cache_error", PyNone, FALSE, store, now, now, NoUfr)
        ELSE IF is_cache_hit("pygithub", endpoint, looked.value)
        THEN CallResult("returned", looked.value, FALSE, looked.store,
                        now, now, NoUfr)
        ELSE IF answer.status # "ok"
        THEN CallResult(IF answer.status = "not_found"
                        THEN "not_found" ELSE "api_error",
                        PyNone, TRUE,
                        store_after_answer(looked.store, k, answer,
                                           ttl_of(endpoint), now),
                        now, now, NoUfr)
        ELSE IF fault = "write"
        THEN CallResult("api_error", PyNone, TRUE, looked.store,
                        now, now, NoUfr)
        ELSE CallResult("returned", answer.payload, TRUE,
                        store_after_answer(looked.store, k, answer,
                                           ttl_of(endpoint), now),
                        now, now, NoUfr)

\* the requests client: wait_if_needed, session.get, update_from_response,
\* then the status code; only requests.RequestException is caught
requests_call(endpoint, fault, answer, resp_remaining, reset_offset) ==
    LET k      == cache_key(endpoint)
        looked == cache_get(store, k, now)
        start  == now + get_wait_time(now)
        resp   == [remaining |-> resp_remaining,
                   reset |-> IF reset_offset = None
                             THEN None
                             ELSE start + reset_offset]
        u      == update_from_response(start, resp, rate_limit_reset)
    IN  IF fault = "read"
        THEN CallResult("cache_error", PyNone, FALSE, store, now, now, NoUfr)
        ELSE IF is_cache_hit("requests", endpoint, looked.value)
        THEN CallResult("returned", looked.value, FALSE, looked.store,
                        now, now, NoUfr)
        ELSE IF answer.status = "network_error"
        THEN CallResult("api_error", PyNone, TRUE, looked.store,
                        start, start, NoUfr)
        ELSE IF u.raised
        THEN CallResult("rate_limit_error", PyNone, TRUE, looked.store,
                        start, u.t1, u)
        ELSE IF answer.status # "ok"
        THEN CallResult(IF answer.status = "not_found"
                        THEN "not_found" ELSE "api_error",
                        PyNone, TRUE,
                        store_after_answer(looked.store, k, answer,
                                           ttl_of(endpoint), u.t1),
                        start, u.t1, u)
        ELSE IF fault = "write"
        THEN CallResult("cache_error", PyNone, TRUE, looked.store,
                        start, u.t1, u)
        ELSE CallResult("returned", answer.payload, TRUE,
                        store_after_answer(looked.store, k, answer,
                                           ttl_of(endpoint), u.t1),
                        start, u.t1, u)

InitClient ==
    /\ IdleDiscovery
    /\ IdleClassify
    /\ IdleBatch
    /\ now = 0
    /\ expire_after \in DefaultTtls
    /\ store = {}
    /\ last_get = NoGet
    /\ written = [k \in Keys |-> NoWrite]
    /\ client_impl \in ClientImpls
    /\ request_delay = 1       \* RateLimitHandler(request_delay=1.0)
    /\ rate_limit_remaining = None
    /\ rate_limit_reset = None
    /\ last_request_time = None
    /\ call_starts = <<>>
    /\ ufr = NoUfr
    /\ ops = 0
    /\ call_log = NoCall
    /\ IdleRace

\* one call of search_code_in_repository or get_file_content.  The PyGithub
\* client does not look at the rate-limit headers; a cache fault is injected
\* into calls whose provider answer is a success.
ClientCall(endpoint, fault, answer, resp_remaining, reset_offset) ==
    /\ ops < MaxOps
    /\ ops' = ops + 1
    /\ <<resp_remaining, reset_offset>> \in ClientRateHeaders
    /\ (client_impl = "pygithub" \/ fault = "read"
            \/ answer.status = "network_error")
          => (resp_remaining = 7 /\ reset_offset = None)
    /\ fault # "none" => answer.status = "ok"
    /\ LET k   == cache_key(endpoint)
           res == IF client_impl = "pygithub"
                  THEN pygithub_call(endpoint, fault, answer)
                  ELSE requests_call(endpoint, fault, answer,
                                     resp_remaining, reset_offset)
           wrote == res.live /\ res.outcome = "returned"
       IN  /\ store' = res.store
           /\ now' = res.t1
           /\ written' =
                 IF wrote
                 THEN [written EXCEPT ![k] =
                          [present |-> TRUE, value |-> answer.payload,
                           at |-> res.t1, ttl |-> ttl_of(endpoint),
                           replaced |-> RowsOf(k) # {}]]
                 ELSE written
           /\ last_request_time' =
                 IF res.live /\ client_impl = "requests"
                 THEN res.start
                 ELSE last_request_time
           /\ call_starts' =
                 IF res.live
                 THEN Append(call_starts, [endpoint |-> endpoint, at |-> res.start])
                 ELSE call_starts
           /\ ufr' = res.u
           /\ rate_limit_remaining' =
                 IF res.u.called THEN res.u.remaining ELSE rate_limit_remaining
           /\ rate_limit_reset' =
                 IF res.u.called THEN res.u.reset ELSE rate_limit_reset
           /\ call_log' =
                 [called |-> TRUE, endpoint |-> endpoint, key |-> k,
                  at |-> now, fault |-> fault, answer |-> answer,
                  remaining |-> resp_remaining,
                  outcome |-> res.outcome, returned |-> res.returned,
                  live |-> res.live, store_before |-> store,
                  prior |-> written[k]]
    /\ UNCHANGED <<expire_after, last_get, client_impl, request_delay>>
    /\ UNCHANGED <<discVars, classVars, batchVars,
                   raceVars>>

\* time passes between two calls
ClientTick(d) ==
    /\ ops < MaxOps
    /\ ops' = ops + 1
    /\ now' = now + d
    /\ call_log' = NoCall
    /\ ufr' = NoUfr
    /\ UNCHANGED <<expire_after, store, last_get, written, client_impl,
                   request_delay, rate_limit_remaining, rate_limit_reset,
                   last_request_time, call_starts>>
    /\ UNCHANGED <<discVars, classVars, batchVars,
                   raceVars>>

NextClient ==
    \/ \E e \in CachedEndpoints, f \in CacheFaults :
          \E a \in ProviderAnswers(e), h \in ClientRateHeaders :
             ClientCall(e, f, a, h[1], h[2])
    \/ \E d \in ClockSteps : ClientTick(d)

SpecClient == InitClient /\ [][NextClient]_vars

\* C14: after a live call for a request succeeded with payload p, every
\* repeat of the request before the TTL has elapsed returns p and issues no
\* live call, for every payload p, the empty result list included.
C14_RepeatServedFromCache ==
    ( /\ call_log.called
      /\ call_log.fault = "none"
      /\ call_log.prior.present
      /\ call_log.at <= call_log.prior.at + call_log.prior.ttl )
    => /\ ~call_log.live
       /\ call_log.outcome = "returned"
       /\ call_log.returned = call_log.prior.value

\* the last call went to the provider and failed
LiveCallFailed ==
    /\ call_log.called
    /\ call_log.fault = "none"
    /\ call_log.live
    /\ call_log.outcome # "returned"

\* C19 as stated: a provider call that ends in not-found or in any other
\* failure leaves the cache table exactly as it was before the call.
C19_FailedCallLeavesStoreUntouched ==
    LiveCallFailed => store = call_log.store_before

\* C19: a provider call that ends in not-found or in any other failure
\* writes no entry: the table afterwards is the table before the call
\* without the stale entry of the request's key that the lookup deleted, and
\* an identical call at once is a cache miss again.
C19_FailedCallWritesNothing ==
    LiveCallFailed =>
        /\ store = {r \in call_log.store_before :
                       ~(r.key = call_log.key /\ is_expired(call_log.at, r))}
        /\ ~is_cache_hit(client_impl, call_log.endpoint,
                         cache_get(store, call_log.key, now).value)

\* a not-found answer for a request that had been cached and whose stale
\* entry the lookup of this call deleted
C19_Witness ==
    /\ LiveCallFailed
    /\ call_log.outcome = "not_found"
    /\ call_log.prior.present
    /\ store # call_log.store_before

\* C20: when the cache fails on read or on write during a call whose live
\* provider call succeeds, the call returns the live payload.
C20_CacheFailureBypassed ==
    ( /\ call_log.called
      /\ call_log.fault # "none"
      /\ call_log.answer.status = "ok"
      /\ call_log.remaining # 0 )
    => /\ call_log.outcome = "returned"
       /\ call_log.returned = call_log.answer.payload

\* ids of the results in a list
ResultIds(results) == {results[i].id : i \in DOMAIN results}

\* the repositories evaluated in the batches completed so far
EvaluatedInCompletedBatches ==
    {evaluated[i].id : i \in {j \in DOMAIN evaluated :
                                 bpc # "filtering" \/ evaluated[j].batch < batch_num}}

\* C21: after each batch every repository evaluated in it, accepted,
\* rejected or errored, is in the run's accumulator.
C21_AccumulatorHoldsAllEvaluated ==
    bpc \in {"batching", "filtering", "returned"}
        => EvaluatedInCompletedBatches \subseteq ResultIds(all_qualified_results)

\* C22: with a batch size of zero or less, search_projects fails before
\* discovery has run and never returns normally.
C22_InvalidBatchSizeFailsFirst ==
    batch_size <= 0
        => /\ bpc \in {"start", "raised"}
           /\ repository_results = <<>>

\* C23: a repository for which the fetch of one of its selected files
\* failed is marked errored, it is not classified from the remaining files.
C23_NoPartialEvidence ==
    \A i \in DOMAIN evaluated :
        evaluated[i].evidence = "partial" => evaluated[i].tag = "errored"

C26_BoundedUniqueFetches ==
    fetch_log.searched =>
        /\ Len(fetch_log.fetches) <= max_files
        /\ \A i, j \in DOMAIN fetch_log.fetches :
              i # j => fetch_log.fetches[i] # fetch_log.fetches[j]
        /\ \A i \in DOMAIN fetch_log.fetches :
              \E j \in DOMAIN fetch_log.candidates :
                 fetch_log.candidates[j] = fetch_log.fetches[i]

\* the code search returned more unique paths than max_files, or a path
\* twice, and max_files files were fetched
C26_Witness ==
    /\ fetch_log.searched
    /\ Len(fetch_log.fetches) = max_files
    /\ \/ Cardinality({fetch_log.candidates[i] :
                          i \in DOMAIN fetch_log.candidates}) > max_files
       \/ \E i, j \in DOMAIN fetch_log.candidates :
             i # j /\ fetch_log.candidates[i] = fetch_log.candidates[j]

\* number of evaluated repositories with a tag
CountTagged(tag) ==
    Cardinality({i \in DOMAIN evaluated : evaluated[i].tag = tag})

\* C28: after search_projects has returned, total_searched is the number of
\* evaluated repositories, qualified_projects and rejected_projects are the
\* numbers classified accepted and rejected, and total_searched is the sum
\* of qualified_projects, rejected_projects and error_projects.
C28_StatisticsAddUp ==
    bpc = "returned" =>
        /\ search_stats.total_searched = Len(evaluated)
        /\ search_stats.qualified_projects = CountTagged("qualified")
        /\ search_stats.rejected_projects = CountTagged("rejected")
        /\ search_stats.total_searched =
              search_stats.qualified_projects + search_stats.rejected_projects
                 + search_stats.error_projects

\* ------------------------------------------------------------------------
\* CacheManager.get next to the operations of another worker on the same
\* database.  get runs two statements on two connections: the SELECT, and,
\* when the row it read is stale, the DELETE of self.delete(key); other
\* operations can run between the two.
\* ------------------------------------------------------------------------

\* get, first statement: SELECT value, expires_at FROM cache WHERE key = ?
\* and the expiry test; a missing row and a fresh row end the call
GetSelect(k) ==
    /\ getter = NoGetter
    /\ IF RowsOf(k) = {}
       THEN /\ last_get' = [op |-> "get", key |-> k, at |-> now,
                            found |-> FALSE, hit |-> FALSE,
                            returned |-> PyNone, evicted |-> FALSE]
            /\ getter' = NoGetter
       ELSE LET row == CHOOSE r \in RowsOf(k) : TRUE
            IN  IF is_expired(now, row)
                THEN /\ getter' = [pc |-> "evict", key |-> k, read_at |-> now]
                     /\ last_get' = NoGet
                ELSE /\ getter' = NoGetter
                     /\ last_get' = [op |-> "get", key |-> k, at |-> now,
                                     found |-> TRUE, hit |-> TRUE,
                                     returned |-> json_loads(row.value),
                                     evicted |-> FALSE]
    /\ UNCHANGED <<now, expire_after, store, written>>
    /\ UNCHANGED <<discVars, classVars, rateVars, batchVars, clientVars>>

\* get, second statement: self.delete(key), DELETE FROM cache WHERE key = ?,
\* then return None
GetEvict ==
    /\ getter.pc = "evict"
    /\ store' = store \ RowsOf(getter.key)
    /\ last_get' = [op |-> "get", key |-> getter.key, at |-> getter.read_at,
                    found |-> TRUE, hit |-> FALSE,
                    returned |-> PyNone, evicted |-> TRUE]
    /\ getter' = NoGetter
    /\ UNCHANGED <<now, expire_after, written>>
    /\ UNCHANGED <<discVars, classVars, rateVars, batchVars, clientVars>>

NextCacheRace ==
    \/ \E k \in Keys : GetSelect(k)
    \/ GetEvict
    \/ \E k \in Keys, v \in Values, ttl \in TtlArgs : CacheSet(k, v, ttl)
    \/ \E k \in Keys : CacheDelete(k)
    \/ CacheTick

SpecCacheRace == InitCache /\ [][NextCacheRace]_vars

\* C24: with get and set of two workers interleaved, an entry written by
\* set stays in the table until its TTL has elapsed unless a delete, a clear
\* or a later set was requested; the eviction of a get that read a stale
\* entry earlier does not remove it.
C24_FreshEntrySurvivesGet ==
    \A k \in Keys :
        (written[k].present /\ now <= written[k].at + expire_time(written[k].ttl))
            => \E r \in RowsOf(k) :
                  /\ r.value = json_dumps(written[k].value)
                  /\ r.created_at = written[k].at

====
